---- MODULE Spec2Model ----
(***************************************************************************)
(* omnifetch: the probes of src/main.rs, the command executor and the      *)
(* colorizer of src/util.rs, and main's collect-then-render pipeline.      *)
(*                                                                         *)
(* Text is a sequence of one-character strings.  A Result<String> is a     *)
(* record [ok, panic, val]: Ok(v), Err (an anyhow error propagated by ?)   *)
(* or Panic (an assertion, an index out of range, an arithmetic overflow). *)
(***************************************************************************)
EXTENDS Integers, Sequences, FiniteSets, TLC

VARIABLES
    FENIX,            \* lines of files/fenix.txt (the primary logo, logo A)
    OMNIOS,           \* lines of files/omnios.txt (logo B)
    NO_COLOR,         \* whether the NO_COLOR environment variable is set
    isatty,           \* isatty(1): "yes", "no" or "error"
    overflow_checks,  \* build profile: TRUE panics on integer overflow, FALSE wraps
    pc,               \* position in main (or "call"/"returned" for one function)
    user,             \* Option<String>: <<>> or <<text>>
    hostname,         \* Option<String>
    data,             \* the IndexMap: sequence of <<key, value>>
    output,           \* the right-hand block, a sequence of lines
    i,                \* the index of the render loop (0-based)
    stdout,           \* the lines written to standard output
    called,           \* the lookups and probes called so far, in order
    raw,              \* the input of the function under study
    now,              \* seconds since the epoch at the call (negative: before it)
    ret               \* the value the function under study returned

vars == <<FENIX, OMNIOS, NO_COLOR, isatty, overflow_checks, pc, user, hostname,
          data, output, i, stdout, called, raw, now, ret>>

\* ------------------------------------------------------------------ bounds

MaxRecords == 3
MaxCpus == 4
MaxDays == 2
MaxFenix == 17
MaxOmnios == 1
MaxPieces == 3

\* ------------------------------------------------------------------ text

NL == "\n"
TAB == "\t"
CR == "\r"
SP == " "
ESC == "ESC"

Whitespace == {SP, TAB, NL, CR}

SeqsUpTo(S, n) == UNION {[1..k -> S] : k \in 0..n}

Last(s) == s[Len(s)]

RECURSIVE Join(_, _)
Join(parts, sep) ==
    IF parts = <<>> THEN <<>>
    ELSE IF Len(parts) = 1 THEN parts[1]
    ELSE parts[1] \o sep \o Join(Tail(parts), sep)

MatchAt(s, t, p) ==
    /\ p + Len(t) - 1 <= Len(s)
    /\ SubSeq(s, p, p + Len(t) - 1) = t

\* str::contains
Contains(s, t) == \E p \in 1..(Len(s) + 1) : MatchAt(s, t, p)

\* str::replace: the non-overlapping matches, left to right
RECURSIVE ReplaceFrom(_, _, _, _)
ReplaceFrom(s, from, to, p) ==
    IF p > Len(s) THEN <<>>
    ELSE IF MatchAt(s, from, p) THEN to \o ReplaceFrom(s, from, to, p + Len(from))
    ELSE <<s[p]>> \o ReplaceFrom(s, from, to, p + 1)

Replace(s, from, to) == ReplaceFrom(s, from, to, 1)

\* str::split(char): always at least one field
RECURSIVE Split(_, _)
Split(s, d) ==
    IF \A p \in 1..Len(s) : s[p] # d THEN <<s>>
    ELSE LET p == CHOOSE q \in 1..Len(s) :
                      s[q] = d /\ \A r \in 1..(q - 1) : s[r] # d
         IN  <<SubSeq(s, 1, p - 1)>> \o Split(SubSeq(s, p + 1, Len(s)), d)

StripCR(line) ==
    IF line # <<>> /\ Last(line) = CR THEN SubSeq(line, 1, Len(line) - 1) ELSE line

\* str::lines: lines end at "\n" (or "\r\n"); a final empty line is not a line
Lines(s) ==
    IF s = <<>> THEN <<>>
    ELSE LET parts == Split(s, NL)
             n == Len(parts)
             kept == IF parts[n] = <<>> THEN n - 1 ELSE n
         IN  [k \in 1..kept |-> IF k < n THEN StripCR(parts[k]) ELSE parts[k]]

\* str::trim
RECURSIVE TrimStart(_)
TrimStart(s) ==
    IF s # <<>> /\ s[1] \in Whitespace THEN TrimStart(Tail(s)) ELSE s

RECURSIVE TrimEnd(_)
TrimEnd(s) ==
    IF s # <<>> /\ Last(s) \in Whitespace
    THEN TrimEnd(SubSeq(s, 1, Len(s) - 1)) ELSE s

Trim(s) == TrimEnd(TrimStart(s))

DigitChars == <<"0", "1", "2", "3", "4", "5", "6", "7", "8", "9">>

\* format!("{}", n) of a small non-negative integer
RECURSIVE ToDecimal(_)
ToDecimal(n) ==
    IF n < 10 THEN <<DigitChars[n + 1]>>
    ELSE ToDecimal(n \div 10) \o <<DigitChars[(n % 10) + 1]>>

\* The orders in which a set can be enumerated.
Orders(S) ==
    {f \in [1..Cardinality(S) -> S] : \A j, k \in 1..Cardinality(S) : j # k => f[j] # f[k]}

\* ---------------------------------------------------------------- results

Ok(v) == [ok |-> TRUE, panic |-> FALSE, val |-> v]
Err == [ok |-> FALSE, panic |-> FALSE, val |-> <<>>]
Panic == [ok |-> FALSE, panic |-> TRUE, val |-> <<>>]

None == <<>>
Some(v) == <<v>>

\* ------------------------------------------------------------ util.rs: run

\* A finished child process as Command::output sees it.
Proc(text) == [spawned |-> TRUE, success |-> TRUE, utf8 |-> TRUE, stdout |-> text]
NoSpawn == [spawned |-> FALSE, success |-> FALSE, utf8 |-> TRUE, stdout |-> <<>>]
ExitFail(text) == [spawned |-> TRUE, success |-> FALSE, utf8 |-> TRUE, stdout |-> text]
BadUtf8 == [spawned |-> TRUE, success |-> TRUE, utf8 |-> FALSE, stdout |-> <<>>]

run(proc) ==
    IF ~proc.spawned THEN Err
    ELSE IF ~proc.success THEN Err
    ELSE IF ~proc.utf8 THEN Err
    ELSE Ok(Trim(proc.stdout))

\* ------------------------------------------------------- util.rs: colorize

\* Mutant: NO_COLOR is not looked at.
should_colorize_tty_only(no_color, tty) == tty = "yes"

should_colorize(no_color, tty) == ~no_color /\ tty = "yes"

\* Mutant: the plain branch forgets "$(c2)".
colorize_keeps_c2(s, on) ==
    IF on
    THEN Replace(Replace(Replace(s,
             <<"$", "(", "c", "0", ")">>, <<ESC, "[", "0", "m">>),
             <<"$", "(", "c", "1", ")">>, <<ESC, "[", "0", "m", ESC, "[", "3", "8", ";", "5", ";", "2", "0", "8", "m">>),
             <<"$", "(", "c", "2", ")">>, <<ESC, "[", "0", "m", ESC, "[", "3", "8", ";", "5", ";", "8", "m">>)
    ELSE Replace(Replace(s, <<"$", "(", "c", "0", ")">>, <<>>), <<"$", "(", "c", "1", ")">>, <<>>)

colorize(s, on) ==
    IF on
    THEN Replace(Replace(Replace(s,
             <<"$", "(", "c", "0", ")">>, <<ESC, "[", "0", "m">>),
             <<"$", "(", "c", "1", ")">>, <<ESC, "[", "0", "m", ESC, "[", "3", "8", ";", "5", ";", "2", "0", "8", "m">>),
             <<"$", "(", "c", "2", ")">>, <<ESC, "[", "0", "m", ESC, "[", "3", "8", ";", "5", ";", "8", "m">>)
    ELSE Replace(Replace(Replace(s, <<"$", "(", "c", "0", ")">>, <<>>), <<"$", "(", "c", "1", ")">>, <<>>), <<"$", "(", "c", "2", ")">>, <<>>)

\* ------------------------------------------- main.rs: the lookups and probes

\* env::var("USER"): None when unset
get_user(env_user) == IF env_user = None THEN Err ELSE Ok(env_user[1])

\* gethostname()?.into_string().expect(..)
get_hostname(host) ==
    IF ~host.ok THEN Err
    ELSE IF ~host.unicode THEN Panic
    ELSE Ok(host.name)

\* fs::read_to_string("/etc/release")?, then its first line, trimmed
get_os(file) ==
    IF ~file.readable THEN Err
    ELSE IF Lines(file.text) = <<>> THEN Err
    ELSE Ok(Trim(Lines(file.text)[1]))

\* zonename::getzonename()?
get_zonename(zone) == IF zone.ok THEN Ok(zone.val) ELSE Err

get_kernel(proc) == run(proc)

get_memory(proc) ==
    LET out == run(proc)
    IN  IF ~out.ok THEN out
        ELSE LET lines == Lines(out.val)
             IN  IF Len(lines) < 2 THEN Panic
                 ELSE LET spl == Split(lines[2], ":")
                      IN  IF Len(spl) < 2 THEN Panic ELSE Ok(Trim(spl[2]))

get_smf(proc) ==
    LET out == run(proc)
    IN  IF ~out.ok THEN out
        ELSE LET lines == Lines(out.val)
                 online == Cardinality({k \in 1..Len(lines) : lines[k] = <<"o", "n", "l", "i", "n", "e">>})
             IN  Ok(ToDecimal(online) \o <<" ", "s", "v", "c", "s", " ", "o", "n", "l", "i", "n", "e">>)

get_zones(proc_running, proc_total) ==
    LET r == run(proc_running)
        t == run(proc_total)
    IN  IF ~r.ok THEN r
        ELSE IF ~t.ok THEN t
        ELSE Ok(ToDecimal(Len(Lines(r.val))) \o <<" ", "r", "u", "n", "n", "i", "n", "g", " ", "(">>
                    \o ToDecimal(Len(Lines(t.val))) \o <<" ", "t", "o", "t", "a", "l", ")">>)

\* str::split_whitespace: the maximal runs of non-whitespace
RECURSIVE SplitWhitespace(_)
SplitWhitespace(s) ==
    LET t == TrimStart(s)
    IN  IF t = <<>> THEN <<>>
        ELSE LET n == IF \A p \in 1..Len(t) : t[p] \notin Whitespace THEN Len(t)
                      ELSE (CHOOSE q \in 1..Len(t) :
                                t[q] \in Whitespace
                                /\ \A r \in 1..(q - 1) : t[r] \notin Whitespace) - 1
             IN  <<SubSeq(t, 1, n)>> \o SplitWhitespace(SubSeq(t, n + 1, Len(t)))

get_zpools(proc) ==
    LET out == run(proc)
    IN  IF ~out.ok THEN out
        ELSE LET lines == Lines(out.val)
                 cols == [k \in 1..Len(lines) |-> SplitWhitespace(lines[k])]
             IN  IF \E k \in 1..Len(lines) : Len(cols[k]) < 4 THEN Panic
                 ELSE Ok(Join([k \in 1..Len(lines) |->
                                  cols[k][1] \o <<" ">> \o cols[k][3] \o <<"/">> \o cols[k][4]],
                              <<",", " ">>))

\* ------------------------------------------------- main.rs: get_bootenvironment

\* Mutant: no assertion on `current`, so the last N-flagged record wins.
RECURSIVE be_scan_unasserted(_, _, _, _)
be_scan_unasserted(lines, k, next, current) ==
    IF k > Len(lines) THEN [panic |-> FALSE, next |-> next, current |-> current]
    ELSE LET spl == Split(lines[k], ";")
         IN  IF Len(spl) < 3 THEN [panic |-> TRUE, next |-> next, current |-> current]
             ELSE LET name == spl[1]
                      flags == spl[3]
                      isR == Contains(flags, <<"R">>)
                      isN == Contains(flags, <<"N">>)
                      next2 == IF isR THEN Some(name) ELSE next
                      current2 == IF isN THEN Some(name) ELSE current
                  IN  IF isR /\ next # None
                      THEN [panic |-> TRUE, next |-> next, current |-> current]
                      ELSE be_scan_unasserted(lines, k + 1, next2, current2)

\* One pass of the loop over output.lines(): next and current are Options.
RECURSIVE be_scan(_, _, _, _)
be_scan(lines, k, next, current) ==
    IF k > Len(lines) THEN [panic |-> FALSE, next |-> next, current |-> current]
    ELSE LET spl == Split(lines[k], ";")
         IN  IF Len(spl) < 3 THEN [panic |-> TRUE, next |-> next, current |-> current]
             ELSE LET name == spl[1]
                      flags == spl[3]
                      isR == Contains(flags, <<"R">>)
                      isN == Contains(flags, <<"N">>)
                      next2 == IF isR THEN Some(name) ELSE next
                      current2 == IF isN THEN Some(name) ELSE current
                  IN  IF isR /\ next # None
                      THEN [panic |-> TRUE, next |-> next, current |-> current]
                      ELSE IF isN /\ current # None
                      THEN [panic |-> TRUE, next |-> next2, current |-> current]
                      ELSE be_scan(lines, k + 1, next2, current2)

\* Mutant: the two names change places in the staged form.
get_bootenvironment_swapped(proc) ==
    LET out == run(proc)
    IN  IF ~out.ok THEN out
        ELSE LET st == be_scan(Lines(out.val), 1, None, None)
             IN  IF st.panic THEN Panic
                 ELSE IF st.next = None THEN Err
                 ELSE IF st.current = None THEN Err
                 ELSE LET next == st.next[1]
                          current == st.current[1]
                      IN  IF next = current THEN Ok(current)
                          ELSE Ok(next \o <<" ", "(", "s", "t", "a", "g", "e", "d", " ">> \o current \o <<")">>)

get_bootenvironment(proc) ==
    LET out == run(proc)
    IN  IF ~out.ok THEN out
        ELSE LET st == be_scan(Lines(out.val), 1, None, None)
             IN  IF st.panic THEN Panic
                 ELSE IF st.next = None THEN Err
                 ELSE IF st.current = None THEN Err
                 ELSE LET next == st.next[1]
                          current == st.current[1]
                      IN  IF next = current THEN Ok(current)
                          ELSE Ok(current \o <<" ", "(", "s", "t", "a", "g", "e", "d", " ">>
                                          \o next \o <<")">>)

\* ------------------------------------------------------------ main.rs: get_cpu

EmptyMap == [b \in {} |-> 0]

\* Mutant: counts.insert(key, 1), which forgets the earlier lines of a brand.
EntryOverwrite(counts, key) ==
    [b \in DOMAIN counts \cup {key} |-> IF b = key THEN 1 ELSE counts[b]]

\* *counts.entry(key).or_insert(0) += 1
EntryIncrement(counts, key) ==
    [b \in DOMAIN counts \cup {key} |->
        IF b = key THEN (IF key \in DOMAIN counts THEN counts[key] + 1 ELSE 1)
        ELSE counts[b]]

RECURSIVE cpu_count(_, _, _)
cpu_count(lines, k, counts) ==
    IF k > Len(lines) THEN [panic |-> FALSE, counts |-> counts]
    ELSE LET spl == Split(lines[k], TAB)
         IN  IF Len(spl) < 2 THEN [panic |-> TRUE, counts |-> counts]
             ELSE cpu_count(lines, k + 1, EntryIncrement(counts, spl[2]))

\* The HashMap of brands counted from the command's output (empty when there is none).
cpu_counts(proc) ==
    LET out == run(proc)
    IN  IF ~out.ok THEN EmptyMap ELSE cpu_count(Lines(out.val), 1, EmptyMap).counts

cpu_segment(count, brand) == ToDecimal(count) \o <<" ", "x", " ">> \o brand

\* `order` is the order in which the HashMap yields its keys, which the standard
\* library leaves unspecified: one of Orders(DOMAIN cpu_counts(proc)).
get_cpu(proc, order) ==
    LET out == run(proc)
    IN  IF ~out.ok THEN out
        ELSE LET st == cpu_count(Lines(out.val), 1, EmptyMap)
             IN  IF st.panic THEN Panic
                 ELSE Ok(Join([k \in 1..Len(order) |->
                                  cpu_segment(st.counts[order[k]], order[k])],
                              <<",", " ">>))

\* --------------------------------------------------------- main.rs: get_uptime

\* A u64 is four 16-bit limbs, least significant first.
LimbBase == 2^16
U64Zero == <<0, 0, 0, 0>>

\* Duration::as_secs of a clock reading that fits one machine word of the checker
U64FromNat(n) == <<n % LimbBase, (n \div LimbBase) % LimbBase, 0, 0>>

\* a * m + c for small m and c: the low 64 bits and the carry out of them
U64MulAdd(a, m, c) ==
    LET t1 == a[1] * m + c
        t2 == a[2] * m + (t1 \div LimbBase)
        t3 == a[3] * m + (t2 \div LimbBase)
        t4 == a[4] * m + (t3 \div LimbBase)
    IN  [val |-> <<t1 % LimbBase, t2 % LimbBase, t3 % LimbBase, t4 % LimbBase>>,
         carry |-> t4 \div LimbBase]

\* a - b modulo 2^64 and whether it borrowed (a < b)
U64Sub(a, b) ==
    LET d1 == a[1] - b[1]
        w1 == IF d1 < 0 THEN 1 ELSE 0
        d2 == a[2] - b[2] - w1
        w2 == IF d2 < 0 THEN 1 ELSE 0
        d3 == a[3] - b[3] - w2
        w3 == IF d3 < 0 THEN 1 ELSE 0
        d4 == a[4] - b[4] - w3
        w4 == IF d4 < 0 THEN 1 ELSE 0
    IN  [val |-> <<d1 + w1 * LimbBase, d2 + w2 * LimbBase,
                   d3 + w3 * LimbBase, d4 + w4 * LimbBase>>,
         borrow |-> w4 = 1]

\* a / m and a % m for small m
U64DivRem(a, m) ==
    LET q4 == a[4] \div m
        r4 == a[4] % m
        q3 == (r4 * LimbBase + a[3]) \div m
        r3 == (r4 * LimbBase + a[3]) % m
        q2 == (r3 * LimbBase + a[2]) \div m
        r2 == (r3 * LimbBase + a[2]) % m
        q1 == (r2 * LimbBase + a[1]) \div m
        r1 == (r2 * LimbBase + a[1]) % m
    IN  [quot |-> <<q1, q2, q3, q4>>, rem |-> r1]

\* Mutant: the quotient rounded to the nearest integer instead of down.
U64DivRounded(a, m) == U64DivRem(U64MulAdd(a, 1, m \div 2).val, m).quot

U64Div(a, m) == U64DivRem(a, m).quot

\* format!("{}", n) of a u64
RECURSIVE U64ToDecimal(_)
U64ToDecimal(a) ==
    LET qr == U64DivRem(a, 10)
    IN  IF qr.quot = U64Zero THEN <<DigitChars[qr.rem + 1]>>
        ELSE U64ToDecimal(qr.quot) \o <<DigitChars[qr.rem + 1]>>

\* str::parse::<u64>: an optional "+", then one or more digits, no overflow
RECURSIVE u64_digits(_, _, _)
u64_digits(s, k, acc) ==
    IF k > Len(s) THEN [ok |-> TRUE, val |-> acc]
    ELSE IF \A d \in 1..10 : DigitChars[d] # s[k] THEN [ok |-> FALSE, val |-> acc]
    ELSE LET d == CHOOSE e \in 0..9 : DigitChars[e + 1] = s[k]
             t == U64MulAdd(acc, 10, d)
         IN  IF t.carry # 0 THEN [ok |-> FALSE, val |-> acc]
             ELSE u64_digits(s, k + 1, t.val)

u64_parse(s) ==
    LET digits == IF s # <<>> /\ s[1] = "+" THEN Tail(s) ELSE s
    IN  IF digits = <<>> THEN [ok |-> FALSE, val |-> U64Zero]
        ELSE u64_digits(digits, 1, U64Zero)

\* `clock` is the reading of SystemTime::now() in seconds since the epoch and
\* `checks` is whether the build traps integer overflow.
get_uptime(proc, clock, checks) ==
    LET out == run(proc)
    IN  IF ~out.ok THEN out
        ELSE LET spl == Split(out.val, TAB)
             IN  IF Len(spl) < 2 THEN Panic
                 ELSE LET booted == u64_parse(spl[2])
                      IN  IF ~booted.ok THEN Err
                          ELSE IF clock < 0 THEN Err
                          ELSE LET uptime_secs == U64Sub(U64FromNat(clock), booted.val)
                                   uptime_days ==
                                       U64Div(U64Div(U64Div(uptime_secs.val, 60), 60), 24)
                               IN  IF uptime_secs.borrow /\ checks THEN Panic
                                   ELSE Ok(<<"u", "p", " ">> \o U64ToDecimal(uptime_days)
                                               \o <<" ", "d", "a", "y", "s">>)

\* ------------------------------------------------------- state of one run

MainIdle ==
    /\ FENIX = <<>>
    /\ OMNIOS = <<>>
    /\ NO_COLOR = FALSE
    /\ isatty = "no"
    /\ user = None
    /\ hostname = None
    /\ data = <<>>
    /\ output = <<>>
    /\ i = 0
    /\ stdout = <<>>
    /\ called = <<>>

MainVars == <<FENIX, OMNIOS, NO_COLOR, isatty, user, hostname, data, output, i,
              stdout, called>>

\* --------------------------------------------- get_bootenvironment alone

BENames == {<<"a">>, <<"b">>}
BEFlags == {<<>>, <<"R">>, <<"N">>, <<"N", "R">>, <<"-">>}

\* name;uuid;flags;mountpoint as `beadm list -H` prints them, and a short record
BELine(name, flags) == name \o <<";", "u", ";">> \o flags \o <<";", "/">>
BELines ==
    {BELine(n, f) : n \in BENames, f \in BEFlags} \cup {<<"a", ";", "N">>}

Listing(lines) == IF lines = <<>> THEN <<>> ELSE Join(lines, <<NL>>) \o <<NL>>

BEProcs ==
    {Proc(Listing(ls)) : ls \in SeqsUpTo(BELines, MaxRecords)}
        \cup {NoSpawn, ExitFail(<<>>), BadUtf8}

InitBE ==
    /\ MainIdle
    /\ overflow_checks = FALSE
    /\ now = 0
    /\ pc = "call"
    /\ raw \in BEProcs
    /\ ret = Err

CallBootEnvironment ==
    /\ pc = "call"
    /\ ret' = get_bootenvironment(raw)
    /\ pc' = "returned"
    /\ UNCHANGED <<MainVars, overflow_checks, raw, now>>

NextBE == CallBootEnvironment

SpecBE == InitBE /\ [][NextBE]_vars

\* ----------------------------------------------------------- get_cpu alone

\* `kstat -p cpu_info:::brand` prints module:instance:name:statistic<TAB>brand, one
\* line per CPU; the key is shortened to "k".  Also a line with no tab.
CpuBrands == {<<"A">>, <<"B">>, <<"A", " ", "B">>, <<>>}
CpuLines == {<<"k", TAB>> \o b : b \in CpuBrands} \cup {<<"k">>}

CpuProcs ==
    {Proc(Listing(ls)) : ls \in SeqsUpTo(CpuLines, MaxCpus)}
        \cup {NoSpawn, ExitFail(<<>>), BadUtf8}

InitCpu ==
    /\ MainIdle
    /\ overflow_checks = FALSE
    /\ now = 0
    /\ pc = "call"
    /\ raw \in CpuProcs
    /\ ret = Err

CallCpu ==
    /\ pc = "call"
    /\ \E order \in Orders(DOMAIN cpu_counts(raw)) : ret' = get_cpu(raw, order)
    /\ pc' = "returned"
    /\ UNCHANGED <<MainVars, overflow_checks, raw, now>>

NextCpu == CallCpu

SpecCpu == InitCpu /\ [][NextCpu]_vars

\* -------------------------------------------------------- get_uptime alone

\* `kstat -p unix:0:system_misc:boot_time` prints key<TAB>epoch seconds; the key is
\* shortened to "k".
BootEpochs == {0, 1000, 1718409600}
BootTexts ==
    {ToDecimal(b) : b \in BootEpochs}
        \cup {<<"x">>, <<>>,
              <<"1", "8", "4", "4", "6", "7", "4", "4", "0", "7",
                "3", "7", "0", "9", "5", "5", "1", "6", "1", "6">>}

UptimeProcs ==
    {Proc(<<"k", TAB>> \o t \o <<NL>>) : t \in BootTexts}
        \cup {Proc(<<"k", NL>>), NoSpawn, ExitFail(<<>>), BadUtf8}

Clocks ==
    {b + d * 86400 + r : b \in BootEpochs, d \in 0..MaxDays, r \in {0, 1, 86399}}
        \cup {b - 1 : b \in BootEpochs} \cup {1718409600 - 86400}

InitUptime ==
    /\ MainIdle
    /\ overflow_checks \in BOOLEAN
    /\ now \in Clocks
    /\ pc = "call"
    /\ raw \in UptimeProcs
    /\ ret = Err

CallUptime ==
    /\ pc = "call"
    /\ ret' = get_uptime(raw, now, overflow_checks)
    /\ pc' = "returned"
    /\ UNCHANGED <<MainVars, overflow_checks, raw, now>>

NextUptime == CallUptime

SpecUptime == InitUptime /\ [][NextUptime]_vars

\* ------------------------------------------------------------- main.rs: main

\* IndexMap::insert: a new key goes last, a known key keeps its place
IndexMapInsert(map, key, value) ==
    IF \E k \in 1..Len(map) : map[k][1] = key
    THEN [k \in 1..Len(map) |-> IF map[k][1] = key THEN <<key, value>> ELSE map[k]]
    ELSE Append(map, <<key, value>>)

Failed(res) ==
    /\ pc' = "failed"
    /\ UNCHANGED <<user, hostname, data>>

\* Mutant: data.insert(key, probe().unwrap_or_default()), which goes on after a failure.
ProbeOrDefault(name, key, res, then) ==
    /\ pc = name
    /\ called' = Append(called, <<name, res.ok>>)
    /\ data' = IndexMapInsert(data, key, res.val)
    /\ pc' = then
    /\ UNCHANGED <<user, hostname>>
    /\ UNCHANGED <<FENIX, OMNIOS, NO_COLOR, isatty, overflow_checks, output, i, stdout,
                   raw, now, ret>>

\* data.insert(key, probe()?) and on to the next statement
Probe(name, key, res, then) ==
    /\ pc = name
    /\ called' = Append(called, <<name, res.ok>>)
    /\ IF res.ok
       THEN /\ data' = IndexMapInsert(data, key, res.val)
            /\ pc' = then
            /\ UNCHANGED <<user, hostname>>
       ELSE Failed(res)
    /\ UNCHANGED <<FENIX, OMNIOS, NO_COLOR, isatty, overflow_checks, output, i, stdout,
                   raw, now, ret>>

\* The environment one run may meet, a few cases of each.
EnvUsers == {None, Some(<<"u">>), Some(<<ESC, "[", "5", "m", "u">>)}
Hosts ==
    {[ok |-> FALSE, unicode |-> TRUE, name |-> <<>>],
     [ok |-> TRUE, unicode |-> FALSE, name |-> <<>>],
     [ok |-> TRUE, unicode |-> TRUE, name |-> <<"h">>]}
ReleaseFiles ==
    {[readable |-> FALSE, text |-> <<>>],
     [readable |-> TRUE, text |-> <<>>],
     [readable |-> TRUE, text |-> <<" ", " ", "O", "m", "n", "i", "O", "S", " ", "r", "1", NL, "x", NL>>]}
KernelProcs == {NoSpawn, Proc(<<"o", "m", "n", "i", "o", "s", "-", "r", "1", NL>>)}
Zonenames == {Err, Ok(<<"g", "l", "o", "b", "a", "l">>)}
MainBEProcs ==
    {ExitFail(<<>>),
     Proc(Listing(<<BELine(<<"a">>, <<"N">>), BELine(<<"b">>, <<"R">>)>>)),
     Proc(Listing(<<BELine(<<"a">>, <<"N">>), BELine(<<"b">>, <<"N">>)>>))}
MainCpuProcs ==
    {BadUtf8, Proc(<<"k", NL>>), Proc(<<"k", TAB, "A", NL, "k", TAB, "B", NL, "k", TAB, "A", NL>>)}
MainUptimeProcs == {NoSpawn, Proc(<<"k", TAB, "1", "0", "0", "0", NL>>)}
MainClocks == {-1, 999, 1000 + 86400}
MemoryProcs ==
    {ExitFail(<<>>), Proc(<<"l", " ", "0", ":", NL>>), Proc(<<"l", " ", "0", ":", NL, TAB, "M", "e", "m", "o", "r", "y", NL>>),
     Proc(<<"l", " ", "0", ":", NL, TAB, "M", "e", "m", "o", "r", "y", ":", " ", "8", "G", ",", " ", "f", "r", "e", "e", " ", "2", "G", NL>>)}
SmfProcs == {NoSpawn, Proc(<<"o", "n", "l", "i", "n", "e", NL, "d", "e", "g", "r", "a", "d", "e", "d", NL, "o", "n", "l", "i", "n", "e", NL>>)}
RunningZoneProcs == {ExitFail(<<>>), Proc(<<"g", NL>>)}
TotalZoneProcs == {NoSpawn, Proc(<<"g", NL, "z", NL>>)}
ZpoolProcs == {NoSpawn, Proc(<<"t", " ", "1", "%", " ", "2", "G", NL>>), Proc(<<"r", " ", "5", "%", " ", "1", "G", " ", "9", "G", NL, "t", " ", " ", "1", "0", "%", TAB, "2", "G", " ", "1", "T", NL>>)}

FenixLine(k) == <<"$", "(", "c", "1", ")", "F">> \o ToDecimal(k)
OmniosLine(k) == <<"$", "(", "c", "2", ")", "O">> \o ToDecimal(k) \o <<"$", "(", "c", "0", ")">>

Init ==
    /\ \E h \in 0..MaxFenix : FENIX = [k \in 1..h |-> FenixLine(k)]
    /\ \E h \in 0..MaxOmnios : OMNIOS = [k \in 1..h |-> OmniosLine(k)]
    /\ NO_COLOR \in BOOLEAN
    /\ isatty \in {"yes", "no", "error"}
    /\ overflow_checks \in BOOLEAN
    /\ pc = "get_user"
    /\ user = None
    /\ hostname = None
    /\ data = <<>>
    /\ output = <<>>
    /\ i = 0
    /\ stdout = <<>>
    /\ called = <<>>
    /\ raw = <<>>
    /\ now = 0
    /\ ret = Err

Fixed == <<FENIX, OMNIOS, NO_COLOR, isatty, overflow_checks, raw, now, ret>>

get_user_step ==
    /\ pc = "get_user"
    /\ \E u \in EnvUsers :
        LET res == get_user(u)
        IN  /\ called' = Append(called, <<"get_user", res.ok>>)
            /\ IF res.ok
               THEN user' = Some(res.val) /\ pc' = "get_hostname"
                    /\ UNCHANGED <<hostname, data>>
               ELSE Failed(res)
    /\ UNCHANGED <<Fixed, output, i, stdout>>

get_hostname_step ==
    /\ pc = "get_hostname"
    /\ \E h \in Hosts :
        LET res == get_hostname(h)
        IN  /\ called' = Append(called, <<"get_hostname", res.ok>>)
            /\ IF res.ok
               THEN hostname' = Some(res.val) /\ pc' = "get_os"
                    /\ UNCHANGED <<user, data>>
               ELSE Failed(res)
    /\ UNCHANGED <<Fixed, output, i, stdout>>

get_os_step ==
    /\ pc = "get_os"
    /\ \E f \in ReleaseFiles : Probe("get_os", <<"O", "S">>, get_os(f), "get_kernel")

get_kernel_step ==
    /\ pc = "get_kernel"
    /\ \E p \in KernelProcs : Probe("get_kernel", <<"K", "e", "r", "n", "e", "l">>, get_kernel(p), "get_zonename")

get_zonename_step ==
    /\ pc = "get_zonename"
    /\ \E z \in Zonenames :
            Probe("get_zonename", <<"Z", "o", "n", "e", "n", "a", "m", "e">>, get_zonename(z), "get_bootenvironment")

get_bootenvironment_step ==
    /\ pc = "get_bootenvironment"
    /\ \E p \in MainBEProcs :
            Probe("get_bootenvironment", <<"B", "o", "o", "t", " ", "E", "n", "v">>, get_bootenvironment(p), "get_cpu")

get_cpu_step ==
    /\ pc = "get_cpu"
    /\ \E p \in MainCpuProcs : \E order \in Orders(DOMAIN cpu_counts(p)) :
            Probe("get_cpu", <<"C", "P", "U">>, get_cpu(p, order), "get_uptime")

get_uptime_step ==
    /\ pc = "get_uptime"
    /\ \E p \in MainUptimeProcs : \E clock \in MainClocks :
            Probe("get_uptime", <<"U", "p", "t", "i", "m", "e">>, get_uptime(p, clock, overflow_checks), "get_memory")

get_memory_step ==
    /\ pc = "get_memory"
    /\ \E p \in MemoryProcs : Probe("get_memory", <<"M", "e", "m", "o", "r", "y">>, get_memory(p), "get_smf")

get_smf_step ==
    /\ pc = "get_smf"
    /\ \E p \in SmfProcs : Probe("get_smf", <<"S", "M", "F">>, get_smf(p), "get_zones")

get_zones_step ==
    /\ pc = "get_zones"
    /\ \E p \in RunningZoneProcs : \E q \in TotalZoneProcs :
            Probe("get_zones", <<"Z", "o", "n", "e", "s">>, get_zones(p, q), "get_zpools")

get_zpools_step ==
    /\ pc = "get_zpools"
    /\ \E p \in ZpoolProcs : Probe("get_zpools", <<"Z", "F", "S">>, get_zpools(p), "format")

Dashes(n) == [k \in 1..n |-> "-"]

\* Mutant: the blank line between the separator and the facts is not pushed.
output_block_no_gap(logo, u, h, map) ==
    logo
        \o <<<<>>>>
        \o <<<<"$", "(", "c", "1", ")">> \o u \o <<"$", "(", "c", "2", ")", "@", "$", "(", "c", "1", ")">> \o h>>
        \o <<<<"$", "(", "c", "2", ")">> \o [k \in 1..(Len(u) + 1 + Len(h)) |-> "-"]>>
        \o [k \in 1..Len(map) |-> <<"$", "(", "c", "1", ")">> \o map[k][1] \o <<":", "$", "(", "c", "0", ")", " ">> \o map[k][2]]

\* main.rs 190-207: the block that goes to the right of the fenix logo
output_block(logo, u, h, map) ==
    logo
        \o <<<<>>>>
        \o <<<<"$", "(", "c", "1", ")">> \o u \o <<"$", "(", "c", "2", ")", "@", "$", "(", "c", "1", ")">> \o h>>
        \o <<<<"$", "(", "c", "2", ")">> \o Dashes(Len(u) + 1 + Len(h))>>
        \o <<<<>>>>
        \o [k \in 1..Len(map) |-> <<"$", "(", "c", "1", ")">> \o map[k][1] \o <<":", "$", "(", "c", "0", ")", " ">> \o map[k][2]]

format_output ==
    /\ pc = "format"
    /\ output' = output_block(OMNIOS, user[1], hostname[1], data)
    /\ pc' = "println"
    /\ UNCHANGED <<Fixed, user, hostname, data, i, stdout, called>>

println_lead ==
    /\ pc = "println"
    /\ stdout' = Append(stdout, <<>>)
    /\ i' = 0
    /\ pc' = "loop"
    /\ UNCHANGED <<Fixed, user, hostname, data, output, called>>

\* Mutant: past the end of the block the logo line is printed without its space.
rendered_line_unpadded(idx) ==
    colorize(IF idx < Len(output) THEN FENIX[idx + 1] \o <<" ">> \o output[idx + 1]
             ELSE FENIX[idx + 1],
             NO_COLOR = FALSE /\ isatty = "yes")

\* main.rs 214-220: the line printed for fenix line idx (0-based)
rendered_line(idx) ==
    LET output_line == IF idx < Len(output) THEN output[idx + 1] ELSE <<>>
    IN  colorize(FENIX[idx + 1] \o <<" ">> \o output_line,
                 should_colorize(NO_COLOR, isatty))

render_line ==
    /\ pc = "loop"
    /\ i < Len(FENIX)
    /\ stdout' = Append(stdout, rendered_line(i))
    /\ i' = i + 1
    /\ UNCHANGED <<Fixed, pc, user, hostname, data, output, called>>

println_trail ==
    /\ pc = "loop"
    /\ i >= Len(FENIX)
    /\ stdout' = Append(stdout, <<>>)
    /\ pc' = "done"
    /\ UNCHANGED <<Fixed, user, hostname, data, output, i, called>>

Next ==
    \/ get_user_step
    \/ get_hostname_step
    \/ get_os_step
    \/ get_kernel_step
    \/ get_zonename_step
    \/ get_bootenvironment_step
    \/ get_cpu_step
    \/ get_uptime_step
    \/ get_memory_step
    \/ get_smf_step
    \/ get_zones_step
    \/ get_zpools_step
    \/ format_output
    \/ println_lead
    \/ render_line
    \/ println_trail

Spec == Init /\ [][Next]_vars

\* ---------------------------------------------------------- colorize alone

\* Input strings are built from the three placeholders, parts of them and plain text.
Pieces ==
    {<<"$", "(", "c", "0", ")">>, <<"$", "(", "c", "1", ")">>, <<"$", "(", "c", "2", ")">>, <<"$", "(">>, <<"c", "0", ")">>, <<"c", "1", ")">>, <<"$">>, <<"x">>}

RECURSIVE Flatten(_)
Flatten(parts) == IF parts = <<>> THEN <<>> ELSE parts[1] \o Flatten(Tail(parts))

InitColorize ==
    /\ FENIX = <<>>
    /\ OMNIOS = <<>>
    /\ NO_COLOR \in BOOLEAN
    /\ isatty \in {"yes", "no", "error"}
    /\ overflow_checks = FALSE
    /\ pc = "call"
    /\ user = None
    /\ hostname = None
    /\ data = <<>>
    /\ output = <<>>
    /\ i = 0
    /\ stdout = <<>>
    /\ called = <<>>
    /\ raw \in {Flatten(parts) : parts \in SeqsUpTo(Pieces, MaxPieces)}
    /\ now = 0
    /\ ret = Err

CallColorize ==
    /\ pc = "call"
    /\ ret' = Ok(colorize(raw, should_colorize(NO_COLOR, isatty)))
    /\ pc' = "returned"
    /\ UNCHANGED <<MainVars, overflow_checks, raw, now>>

NextColorize == CallColorize

SpecColorize == InitColorize /\ [][NextColorize]_vars

\* ---------------------------------------------------------------- claims

\* The records of the listing as the claims speak of them: the lines of the
\* command's output, name in field 0, flags in field 2.
BEListing == IF raw.spawned /\ raw.success /\ raw.utf8 THEN Lines(raw.stdout) ELSE <<>>
BEShaped(line) == Len(Split(line, ";")) >= 3
BEName(line) == Split(line, ";")[1]
BEHasFlag(line, f) == BEShaped(line) /\ Contains(Split(line, ";")[3], <<f>>)
BEFlagged(f) == {k \in 1..Len(BEListing) : BEHasFlag(BEListing[k], f)}
BENameOf(f) == BEName(BEListing[CHOOSE k \in BEFlagged(f) : TRUE])
BEStaged(current, next) ==
    current \o <<" ", "(", "s", "t", "a", "g", "e", "d", " ">> \o next \o <<")">>

BEValid ==
    /\ pc = "returned"
    /\ raw.spawned /\ raw.success /\ raw.utf8
    /\ \A k \in 1..Len(BEListing) : BEShaped(BEListing[k])
    /\ Cardinality(BEFlagged("R")) = 1
    /\ Cardinality(BEFlagged("N")) = 1

\* C1: for a listing with exactly one R-flagged and exactly one N-flagged record,
\* get_bootenvironment returns the current name alone if and only if the R record's
\* name equals the N record's name, and otherwise "<current> (staged <next>)".
C1_BootEnvValue ==
    BEValid =>
        /\ ret.ok
        /\ (ret.val = BENameOf("N")) <=> (BENameOf("R") = BENameOf("N"))
        /\ BENameOf("R") # BENameOf("N") =>
               ret.val = BEStaged(BENameOf("N"), BENameOf("R"))

C1_Witness ==
    /\ BEValid
    /\ BENameOf("R") # BENameOf("N")
    /\ ret = Ok(BEStaged(BENameOf("N"), BENameOf("R")))

\* C2: get_bootenvironment returns a value only when the listing has exactly one
\* R-flagged and exactly one N-flagged record; two N-flagged records and no
\* R-flagged record end in a panic, never in a returned name.
C2_BootEnvOnlyWhenUnique ==
    pc = "returned" =>
        /\ ret.ok => /\ Cardinality(BEFlagged("R")) = 1
                     /\ Cardinality(BEFlagged("N")) = 1
        /\ (Cardinality(BEFlagged("N")) >= 2 /\ BEFlagged("R") = {}) => ret.panic

C2_Witness ==
    /\ pc = "returned"
    /\ Cardinality(BEFlagged("N")) = 2
    /\ BEFlagged("R") = {}
    /\ \A k \in 1..Len(BEListing) : BEShaped(BEListing[k])
    /\ ret = Panic

\* The CPU-brand input as the claim speaks of it: the lines of the command's
\* output, the brand in the field after the first tab.
CpuInput == IF raw.spawned /\ raw.success /\ raw.utf8 THEN Lines(raw.stdout) ELSE <<>>
CpuBrandOf(line) == Split(line, TAB)[2]
CpuInputBrands == {CpuBrandOf(CpuInput[k]) : k \in 1..Len(CpuInput)}

\* Reading the returned string back: its ", "-separated segments, and the count
\* and the brand on either side of a segment's first " x ".
RECURSIVE SplitOnText(_, _)
SplitOnText(s, sep) ==
    IF ~Contains(s, sep) THEN <<s>>
    ELSE LET p == CHOOSE q \in 1..Len(s) :
                      MatchAt(s, sep, q) /\ \A r \in 1..(q - 1) : ~MatchAt(s, sep, r)
         IN  <<SubSeq(s, 1, p - 1)>> \o SplitOnText(SubSeq(s, p + Len(sep), Len(s)), sep)

IsDigits(s) == s # <<>> /\ \A k \in 1..Len(s) : \E d \in 1..10 : DigitChars[d] = s[k]

RECURSIVE ReadDecimal(_)
ReadDecimal(s) ==
    IF s = <<>> THEN 0
    ELSE 10 * ReadDecimal(SubSeq(s, 1, Len(s) - 1))
            + (CHOOSE d \in 0..9 : DigitChars[d + 1] = Last(s))

CpuSegments(text) == IF text = <<>> THEN <<>> ELSE SplitOnText(text, <<",", " ">>)
SegmentParts(seg) == SplitOnText(seg, <<" ", "x", " ">>)
SegmentShaped(seg) == Len(SegmentParts(seg)) >= 2 /\ IsDigits(SegmentParts(seg)[1])
SegmentCount(seg) == ReadDecimal(SegmentParts(seg)[1])
SegmentBrand(seg) == SubSeq(seg, Len(SegmentParts(seg)[1]) + 4, Len(seg))

RECURSIVE SumCounts(_)
SumCounts(segs) ==
    IF segs = <<>> THEN 0 ELSE SegmentCount(segs[1]) + SumCounts(Tail(segs))

\* C4: the string get_cpu returns is a ", "-joined list of "<count> x <brand>"
\* segments in which every distinct brand of the input is the brand of exactly one
\* segment and the counts add up to the number of input lines.
C4_CpuSegments ==
    (pc = "returned" /\ ret.ok) =>
        LET segs == CpuSegments(ret.val)
        IN  /\ \A k \in 1..Len(segs) : SegmentShaped(segs[k])
            /\ \A b \in CpuInputBrands :
                   Cardinality({k \in 1..Len(segs) : SegmentBrand(segs[k]) = b}) = 1
            /\ SumCounts(segs) = Len(CpuInput)

C4_Witness ==
    /\ pc = "returned"
    /\ ret = Ok(<<"1", " ", "x", " ", "B", ",", " ", "2", " ", "x", " ", "A">>)
    /\ Len(CpuInput) = 3
    /\ CpuInputBrands = {<<"A">>, <<"B">>}

\* The boot-time statistic as the claims speak of it: the number after the tab.
BootText == Split(Trim(raw.stdout), TAB)[2]
BootKnown ==
    /\ raw.spawned /\ raw.success /\ raw.utf8
    /\ Len(Split(Trim(raw.stdout), TAB)) = 2
    /\ IsDigits(BootText)
    /\ Len(BootText) <= 10
Boot == ReadDecimal(BootText)
UpDays(d) == Ok(<<"u", "p", " ">> \o ToDecimal(d) \o <<" ", "d", "a", "y", "s">>)

\* C5: with boot <= now, get_uptime reports "up <d> days" with
\* d = floor((now - boot) / 86400); 86400 seconds later it reports d + 1, and 86399
\* seconds after an exact whole-day uptime it still reports d.
C5_UptimeFloorDays ==
    (pc = "returned" /\ BootKnown /\ 0 <= now /\ Boot <= now) =>
        LET d == (now - Boot) \div 86400
        IN  /\ ret = UpDays(d)
            /\ get_uptime(raw, now + 86400, overflow_checks) = UpDays(d + 1)
            /\ (now - Boot) % 86400 = 0 =>
                   get_uptime(raw, now + 86399, overflow_checks) = UpDays(d)

C5_Witness ==
    /\ pc = "returned"
    /\ BootKnown
    /\ Boot = 1718409600
    /\ now = Boot + 86400
    /\ ret = UpDays(1)

\* C10: with boot > now, get_uptime returns no "up <d> days" value: the run fails.
C10_NoWrappedUptime ==
    (pc = "returned" /\ BootKnown /\ 0 <= now /\ Boot > now) => ~ret.ok

ColorDisabled == NO_COLOR \/ isatty # "yes"
Placeholders == {<<"$", "(", "c", "0", ")">>, <<"$", "(", "c", "1", ")">>, <<"$", "(", "c", "2", ")">>}
HasPlaceholder(s) == \E t \in Placeholders : Contains(s, t)
\* every "$" of s begins one of the three placeholders
DollarsBeginPlaceholders(s) ==
    \A p \in 1..Len(s) : s[p] = "$" => \E t \in Placeholders : MatchAt(s, t, p)

CallOrder ==
    <<"get_user", "get_hostname", "get_os", "get_kernel", "get_zonename",
      "get_bootenvironment", "get_cpu", "get_uptime", "get_memory", "get_smf",
      "get_zones", "get_zpools">>
TenLabels ==
    <<<<"O", "S">>, <<"K", "e", "r", "n", "e", "l">>, <<"Z", "o", "n", "e", "n", "a", "m", "e">>, <<"B", "o", "o", "t", " ", "E", "n", "v">>, <<"C", "P", "U">>, <<"U", "p", "t", "i", "m", "e">>,
      <<"M", "e", "m", "o", "r", "y">>, <<"S", "M", "F">>, <<"Z", "o", "n", "e", "s">>, <<"Z", "F", "S">>>>
Keys(map) == [k \in 1..Len(map) |-> map[k][1]]

\* C3: the lookups and probes run in the fixed order; one that fails is the last
\* one called, ends the run in failure and leaves standard output empty; and
\* output is written only after all twelve succeeded, with the ten labels in order.
C3_FailFastNoPartialOutput ==
    /\ Len(called) <= Len(CallOrder)
    /\ \A k \in 1..Len(called) : called[k][1] = CallOrder[k]
    /\ \A k \in 1..Len(called) :
           ~called[k][2] => k = Len(called) /\ pc = "failed" /\ stdout = <<>>
    /\ pc = "failed" => stdout = <<>> /\ called # <<>> /\ ~Last(called)[2]
    /\ stdout # <<>> =>
           /\ Len(called) = Len(CallOrder)
           /\ \A k \in 1..Len(called) : called[k][2]
           /\ Keys(data) = TenLabels

C3_Witness ==
    /\ pc = "failed"
    /\ Len(called) = 7
    /\ Last(called) = <<"get_cpu", FALSE>>
    /\ Len(data) = 4
    /\ stdout = <<>>

NoEscape(s) == \A p \in 1..Len(s) : s[p] # ESC
InputsEscapeFree ==
    /\ user # None => NoEscape(user[1])
    /\ hostname # None => NoEscape(hostname[1])
    /\ \A k \in 1..Len(data) : NoEscape(data[k][2])
    /\ \A k \in 1..Len(FENIX) : NoEscape(FENIX[k])
    /\ \A k \in 1..Len(OMNIOS) : NoEscape(OMNIOS[k])

\* C6 as stated: with colorization disabled no output line contains the escape
\* byte, whatever the user name, host name, fact values and logo lines.
C6_NoEscapeAnyInput ==
    ColorDisabled => \A k \in 1..Len(stdout) : NoEscape(stdout[k])

\* C6 amended: with colorization disabled and no escape byte in the user name, the
\* host name, the fact values and the logo lines, no output line contains one.
C6_NoEscapeAdded ==
    (ColorDisabled /\ InputsEscapeFree) => \A k \in 1..Len(stdout) : NoEscape(stdout[k])

C6_Witness ==
    /\ pc = "done"
    /\ NO_COLOR
    /\ isatty = "yes"
    /\ InputsEscapeFree
    /\ Len(stdout) = MaxFenix + 2
    /\ \A k \in 1..Len(stdout) : NoEscape(stdout[k])

Built == pc \in {"println", "loop", "done"}
Banner == <<"$", "(", "c", "1", ")">> \o user[1] \o <<"$", "(", "c", "2", ")", "@", "$", "(", "c", "1", ")">> \o hostname[1]
Separator == <<"$", "(", "c", "2", ")">> \o [k \in 1..(Len(user[1]) + 1 + Len(hostname[1])) |-> "-"]
FactLine(k) == <<"$", "(", "c", "1", ")">> \o TenLabels[k] \o <<":", "$", "(", "c", "0", ")", " ">> \o data[k][2]

\* C8 as stated: the block is the lines of logo B, one blank line, the banner, the
\* separator, then the ten fact lines directly after the separator.
C8_FactsAfterSeparator ==
    Built =>
        LET n == Len(OMNIOS)
        IN  /\ SubSeq(output, 1, n) = OMNIOS
            /\ output[n + 1] = <<>>
            /\ output[n + 2] = Banner
            /\ output[n + 3] = Separator
            /\ Len(output) = n + 13
            /\ \A k \in 1..10 : output[n + 3 + k] = FactLine(k)

\* C8 amended: the block is the lines of logo B, one blank line, the banner, the
\* separator, one more blank line, then the ten fact lines: with n logo-B lines
\* and indices from 0, the banner is at n+1, the separator at n+2, a blank line
\* at n+3 and the first fact line (OS) at n+4.
C8_BlankThenFacts ==
    Built =>
        LET n == Len(OMNIOS)
        IN  /\ SubSeq(output, 1, n) = OMNIOS
            /\ output[n + 1] = <<>>
            /\ output[n + 2] = Banner
            /\ output[n + 3] = Separator
            /\ output[n + 4] = <<>>
            /\ Len(output) = n + 14
            /\ \A k \in 1..10 : output[n + 4 + k] = FactLine(k)

C8_Witness ==
    /\ pc = "println"
    /\ Len(OMNIOS) = 1
    /\ Len(output) = 15
    /\ output[3] = <<"$", "(", "c", "1", ")", "u", "$", "(", "c", "2", ")", "@", "$", "(", "c", "1", ")", "h">>
    /\ output[4] = <<"$", "(", "c", "2", ")", "-", "-", "-">>
    /\ output[6] = <<"$", "(", "c", "1", ")", "O", "S", ":", "$", "(", "c", "0", ")", " ", "O", "m", "n", "i", "O", "S", " ", "r", "1">>

\* C9: between one leading and one trailing blank line the renderer emits exactly
\* one line per line of the primary logo: colorize(logoA[i] + " " + block[i])
\* while the block has a line i and colorize(logoA[i] + " ") after; the block's
\* lines from index len(logoA) on appear nowhere and cause no error.
C9_OneLinePerLogoLine ==
    /\ pc = "loop" =>
           /\ i <= Len(FENIX)
           /\ Len(stdout) = i + 1
           /\ stdout[1] = <<>>
    /\ pc = "done" =>
           /\ Len(stdout) = Len(FENIX) + 2
           /\ stdout[1] = <<>>
           /\ Last(stdout) = <<>>
           /\ \A k \in 1..Len(FENIX) :
                  stdout[k + 1] =
                      colorize(FENIX[k] \o <<" ">>
                                   \o (IF k <= Len(output) THEN output[k] ELSE <<>>),
                               should_colorize(NO_COLOR, isatty))

C9_Witness ==
    /\ pc = "done"
    /\ Len(FENIX) = 3
    /\ Len(output) = 15
    /\ stdout = <<<<>>, <<"F", "1", " ", "O", "1">>, <<"F", "2", " ">>, <<"F", "3", " ", "u", "@", "h">>, <<>>>>

====
